---- MODULE Spec2Model ----
(***************************************************************************)
(* State-machine model of ring::MediaDecoder (src/media/media_decoder.cpp). *)
(* One decoder instance, its demux context, its decoding context, its       *)
(* optional hardware accelerator, the wall clock used for rate emulation    *)
(* and the audio post-processor.  The libav calls the class makes           *)
(* (av_read_frame, avcodec_send_packet, avcodec_receive_frame, ...) are     *)
(* the environment: their results are drawn from the results the calls can  *)
(* produce.                                                                 *)
(***************************************************************************)
EXTENDS Integers, Sequences, FiniteSets, TLC

(* ---------------------------- bounds ----------------------------------- *)
MaxPkts == 2          \* packets the demux context delivers before end of stream
MaxDelay == 2         \* frames a codec may hold back before it outputs one
MaxCtx == 2           \* decoding contexts allocated in one behaviour
MaxNow == 1000000     \* the clock stops advancing here (microseconds)

(* --------------------------- constants --------------------------------- *)
AV_NOPTS_VALUE == -1  \* "no timestamp"; every real time and pts is >= 0 here
Microseconds == 1000000   \* the 1e6 factor of the rate emulator

Rates == {16000, 48000}
ChannelCounts == {1, 2}
(* formats given to setupFromAudioData *)
Formats == { [nb_channels |-> 1, sample_rate |-> 16000],
             [nb_channels |-> 2, sample_rate |-> 48000] }
Delays == {1000000}                  \* time the caller or a step may take
(* stream tables: media kind and time base (1/den seconds) per stream index *)
StreamTables ==
    { << [kind |-> "video", den |-> 1] >>,
      << [kind |-> "audio", den |-> 3], [kind |-> "video", den |-> 3] >> }

(* pixel formats: four full-range JPEG formats, their plain equivalents,   *)
(* one unrelated format                                                     *)
PixFmts == {"YUVJ420P", "YUVJ422P", "YUVJ444P", "YUVJ440P",
            "YUV420P", "YUV422P", "YUV444P", "YUV440P", "NV12"}

(* ----------------------------- state ----------------------------------- *)
VARIABLES
    inputOpen,            \* avformat_open_input succeeded on inputCtx_
    streams,              \* inputCtx_->streams: media kind per stream index
    eof,                  \* the demuxer reached end of stream
    nRead,                \* packets delivered by av_read_frame so far
    held,                 \* packets read and not yet unreferenced
    decoderCtx_,          \* the decoding context (record, state "null" = nullptr)
    allocCount,           \* contexts allocated so far (ids 1..allocCount)
    streamIndex_,         \* selected stream index, -1 = none
    accel_,               \* accelerator handle: [attached, ctx]
    enableAccel_,
    emulateRate_,
    decodingAccelerated,  \* Manager::instance().getDecodingAccelerated()
    startTime_,           \* rate-emulation origin
    now,                  \* av_gettime()
    resampler_,           \* resampler_ is non-null
    nResamplers,          \* Resampler objects constructed so far
    last,                 \* what the last call did and returned
    ffPrev,               \* the latest paced FrameFinished: pts, return time,
                          \* target instant, and how many there were so far
    heap,                 \* every decoding context allocated so far, by id:
                          \* "alloc", "open", "closed" or "freed"
    accelDenied,          \* some openInput call found the process-wide
                          \* acceleration flag false
    run                   \* the fault-free run since a setup at the start of the
                          \* source, while it lasts: decode() calls up to end of
                          \* stream, then flush() calls; packets of the selected
                          \* stream read, FrameFinished returned by decode() and
                          \* by flush()

vars == << inputOpen, streams, eof, nRead, held, decoderCtx_,
           allocCount, streamIndex_, accel_, enableAccel_, emulateRate_,
           decodingAccelerated, startTime_, now, resampler_, nResamplers,
           last, ffPrev, heap, accelDenied, run >>

NullCtx == [state |-> "null", kind |-> "none", id |-> 0, channels |-> 0, sample_rate |-> 0,
            opaque |-> 0, delay |-> 0, queue |-> << >>, draining |-> FALSE]

NoAccel == [attached |-> FALSE, ctx |-> 0]

NoFrame == [pts |-> AV_NOPTS_VALUE, t |-> -1, target |-> -1, n |-> 0]

(* op: the call; ret: result code of openInput/setup; status: Status of     *)
(* decode/flush; read, send, recv: results of av_read_frame,                *)
(* avcodec_send_packet, avcodec_receive_frame ("none" = not called);        *)
(* selected: the packet read was of the selected stream;                    *)
(* accel, failed: accel_ was attached / hasFailed() answered true;          *)
(* format, extracted: the caller's frame; put: the buffer given to the      *)
(* ring buffer; frameRate, out: arguments of writeToRingBuffer; built: a    *)
(* Resampler was constructed                                                *)
LastNone == [op |-> "none", ret |-> 0, status |-> "none",
             read |-> "none", send |-> "none", recv |-> "none",
             selected |-> FALSE,
             accel |-> FALSE, failed |-> FALSE,
             format |-> "none", extracted |-> FALSE,
             put |-> [sample_rate |-> 0, channels |-> 0],
             frameRate |-> 0, out |-> [sample_rate |-> 0, nb_channels |-> 0],
             built |-> FALSE]

NoRun == [clean |-> FALSE, frames |-> 0, finished |-> 0, drained |-> 0]

InitCfg(accelSet, rateSet, managerSet) ==
    /\ inputOpen = FALSE
    /\ streams = << >>
    /\ eof = FALSE
    /\ nRead = 0
    /\ held = 0
    /\ decoderCtx_ = NullCtx
    /\ allocCount = 0
    /\ streamIndex_ = -1
    /\ accel_ = NoAccel
    /\ enableAccel_ \in accelSet    \* initialisers of these two are in the header
    /\ emulateRate_ \in rateSet
    /\ decodingAccelerated \in managerSet
    /\ startTime_ = AV_NOPTS_VALUE
    /\ now = 0
    /\ resampler_ = FALSE
    /\ nResamplers = 0
    /\ last = LastNone
    /\ ffPrev = NoFrame
    /\ heap = << >>
    /\ accelDenied = FALSE
    /\ run = NoRun

Init == InitCfg(BOOLEAN, BOOLEAN, BOOLEAN)

(* The clock and the timestamps are read by the code only under            *)
(* emulateRate_ (lines 217, 315, 385, 439); without it they stay at one     *)
(* value.                                                                   *)
(* The k-th packet of the source carries the timestamp k, or none.         *)
Stamps == IF emulateRate_ THEN {AV_NOPTS_VALUE, nRead} ELSE {AV_NOPTS_VALUE}

(* ------------------------- openInput ----------------------------------- *)
(* lines 107-127: the enable flag is ANDed with the process-wide flag, then *)
(* the input is opened.  A failed avformat_open_input frees the context.    *)
(* The instance is always opened on the same source: the stream table is    *)
(* the one of the first successful open.                                    *)
(* the enable flag left as it was *)
OpenAccelFlagKept(enabled, allowed) == enabled

(* line 110 *)
OpenAccelFlag(enabled, allowed) == enabled /\ allowed

openInput(ok, table) ==
    /\ enableAccel_' = OpenAccelFlag(enableAccel_, decodingAccelerated)
    /\ accelDenied' = (accelDenied \/ ~decodingAccelerated)
    /\ inputOpen' = ok
    /\ streams' = IF ok /\ streams = << >> THEN table ELSE streams
    /\ UNCHANGED eof
    /\ run' = NoRun
    /\ last' = [LastNone EXCEPT !.op = "openInput", !.ret = IF ok THEN 0 ELSE -1]
    /\ UNCHANGED << nRead, held, decoderCtx_, allocCount, heap, streamIndex_,
                    accel_, emulateRate_, decodingAccelerated, startTime_, now,
                    resampler_, nResamplers, ffPrev >>

OpenInput ==
    \E ok \in BOOLEAN, table \in StreamTables : openInput(ok, table)

(* ------------------- setupFromAudioData / setupFromVideoData ------------ *)
(* lines 147-148, 236-237: avcodec_close on a non-null context; the pointer *)
(* is kept                                                                  *)
CloseCtx(ctx) ==
    IF ctx.state # "null"
    THEN [ctx EXCEPT !.state = "closed", !.queue = << >>, !.draining = FALSE]
    ELSE ctx

(* lines 171-177, 262-268: the scan runs only while streamIndex_ is -1 *)
FindStream(cur, table, kind) ==
    IF cur # -1 THEN cur
    ELSE IF \E i \in 1..Len(table) : table[i].kind = kind
         THEN (CHOOSE i \in 1..Len(table) :
                  /\ table[i].kind = kind
                  /\ \A j \in 1..(i-1) : table[j].kind # kind) - 1
         ELSE -1

(* the origin kept once it is set *)
RecordOriginOnce(emulate, start, t) ==
    IF emulate /\ start = AV_NOPTS_VALUE THEN t ELSE start

(* lines 217-220, 315-318 *)
RecordOrigin(emulate, start, t) == IF emulate THEN t ELSE start

(* lines 305-307: the accelerator is made from the new context and stored   *)
(* as its opaque payload; without enableAccel_ accel_ is not touched        *)
AttachAccel(enabled, old, made, id) ==
    IF enabled THEN [attached |-> made, ctx |-> IF made THEN id ELSE 0] ELSE old

setup(kind, format, probeOk, decFound, accelMade, openOk, delay) ==
    LET closed == CloseCtx(decoderCtx_)
        idx == FindStream(streamIndex_, streams, kind)
        reachAlloc == probeOk /\ idx # -1 /\ decFound
        id == allocCount + 1
        acc == IF kind = "video"
               THEN AttachAccel(enableAccel_, accel_, accelMade, id)
               ELSE accel_
        fresh == [state |-> IF openOk THEN "open" ELSE "alloc",
                  kind |-> kind, id |-> id,
                  channels |-> IF kind = "audio" THEN format.nb_channels ELSE 0,
                  sample_rate |-> IF kind = "audio" THEN format.sample_rate ELSE 0,
                  opaque |-> IF kind = "video" /\ enableAccel_ /\ accelMade
                             THEN id ELSE 0,
                  delay |-> delay, queue |-> << >>, draining |-> FALSE]
        ret == IF reachAlloc /\ openOk THEN 0 ELSE -1
        closedHeap == IF decoderCtx_.state # "null"
                      THEN [heap EXCEPT ![decoderCtx_.id] = closed.state]
                      ELSE heap
    IN  /\ inputOpen
        /\ reachAlloc => allocCount < MaxCtx
        /\ streamIndex_' = IF probeOk THEN idx ELSE streamIndex_
        /\ decoderCtx_' = IF reachAlloc THEN fresh ELSE closed
        /\ allocCount' = IF reachAlloc THEN id ELSE allocCount
        /\ heap' = IF reachAlloc THEN Append(closedHeap, fresh.state)
                                 ELSE closedHeap
        /\ accel_' = IF reachAlloc THEN acc ELSE accel_
        /\ startTime_' = IF reachAlloc
                         THEN RecordOrigin(emulateRate_, startTime_, now)
                         ELSE startTime_
        /\ run' = [NoRun EXCEPT !.clean = (ret = 0 /\ nRead = 0 /\ ~eof)]
        /\ last' = [LastNone EXCEPT
                      !.op = IF kind = "audio" THEN "setupFromAudioData"
                                               ELSE "setupFromVideoData",
                      !.ret = ret]
        /\ UNCHANGED << inputOpen, streams, eof, nRead, held,
                        enableAccel_, emulateRate_, decodingAccelerated, now,
                        resampler_, nResamplers, ffPrev, accelDenied >>

NoFormat == [nb_channels |-> 0, sample_rate |-> 0]

(* the failure a setup call meets, if any, and the codec's delay *)
SetupCases ==
    { [probeOk |-> FALSE, decFound |-> FALSE, openOk |-> FALSE, delay |-> 0],
      [probeOk |-> TRUE, decFound |-> FALSE, openOk |-> FALSE, delay |-> 0],
      [probeOk |-> TRUE, decFound |-> TRUE, openOk |-> FALSE, delay |-> 0] }
    \cup { [probeOk |-> TRUE, decFound |-> TRUE, openOk |-> TRUE, delay |-> k] :
             k \in 0..MaxDelay }

setupFromAudioData ==
    \E format \in Formats, c \in SetupCases :
        setup("audio", format, c.probeOk, c.decFound, FALSE, c.openOk, c.delay)

setupFromVideoData ==
    \E c \in SetupCases,
       accelMade \in (IF enableAccel_ THEN BOOLEAN ELSE {FALSE}) :
        setup("video", NoFormat, c.probeOk, c.decFound, accelMade, c.openOk,
              c.delay)

(* lines 455-464 *)
enableAccel(b) ==
    /\ enableAccel_' = b
    /\ accel_' = IF b THEN accel_ ELSE NoAccel
    /\ decoderCtx_' = IF ~b /\ decoderCtx_.state # "null"
                      THEN [decoderCtx_ EXCEPT !.opaque = 0] ELSE decoderCtx_
    /\ last' = [LastNone EXCEPT !.op = "enableAccel"]
    /\ UNCHANGED << inputOpen, streams, eof, nRead, held,
                    allocCount, heap, accelDenied, streamIndex_, emulateRate_, decodingAccelerated,
                    startTime_, now, resampler_, nResamplers, ffPrev, run >>

EnableAccel == \E b \in BOOLEAN : enableAccel(b)

(* Manager::setDecodingAccelerated, called by other parts of the daemon *)
SetDecodingAccelerated ==
    /\ decodingAccelerated' = ~decodingAccelerated
    /\ UNCHANGED << inputOpen, streams, eof, nRead, held,
                    decoderCtx_, allocCount, heap, accelDenied, streamIndex_, accel_, enableAccel_,
                    emulateRate_, startTime_, now, resampler_, nResamplers,
                    last, ffPrev, run >>

(* time passes: in the caller between two calls, or inside a call before   *)
(* it reads the clock                                                       *)
Tick ==
    /\ emulateRate_
    /\ \E d \in Delays : now + d <= MaxNow /\ now' = now + d
    /\ UNCHANGED << inputOpen, streams, eof, nRead, held,
                    decoderCtx_, allocCount, heap, accelDenied, streamIndex_, accel_, enableAccel_,
                    emulateRate_, decodingAccelerated, startTime_, resampler_,
                    nResamplers, last, ffPrev, run >>

(* --------------------- the codec behind decoderCtx_ --------------------- *)
(* avcodec_send_packet: a packet without data starts draining; once the     *)
(* context drains, every further packet is refused with AVERROR_EOF.        *)
FlushPacket == [stream |-> -1, pts |-> AV_NOPTS_VALUE, data |-> FALSE]

SendPacket(ctx, pkt, fault) ==
    LET ret == IF fault # "none" THEN fault
               ELSE IF ctx.draining THEN "EOF" ELSE "OK"
    IN  [ret |-> ret,
         ctx |-> IF ret # "OK" THEN ctx
                 ELSE IF ~pkt.data THEN [ctx EXCEPT !.draining = TRUE]
                 ELSE [ctx EXCEPT !.queue = Append(@, pkt.pts)]]

(* avcodec_receive_frame: a frame comes out once more than `delay` frames   *)
(* are buffered, or, when draining, while any is buffered.                  *)
ReceiveFrame(ctx, fault) ==
    LET ready == Len(ctx.queue) > (IF ctx.draining THEN 0 ELSE ctx.delay)
        ret == IF fault # "none" THEN fault
               ELSE IF ready THEN "OK"
               ELSE IF ctx.draining THEN "EOF" ELSE "EAGAIN"
    IN  [ret |-> ret,
         pts |-> IF ret = "OK" THEN Head(ctx.queue) ELSE AV_NOPTS_VALUE,
         ctx |-> IF ret = "OK" THEN [ctx EXCEPT !.queue = Tail(@)] ELSE ctx]

SendFaults == {"none", "EAGAIN", "ERR"}
RecvFaults == {"none", "ERR"}
CodecFmts == {"YUVJ420P", "NV12"}      \* formats the codec gives a frame
(* every result of avcodec_send_packet / avcodec_receive_frame that the     *)
(* code tells apart ("none": what the codec does by itself)                 *)
SendResults == {"none", "EAGAIN", "EOF", "ERR"}
RecvResults == {"none", "EAGAIN", "EOF", "ERR"}

(* ----------------------------- decode ----------------------------------- *)
(* no normalisation *)
correctPixFmtIdentity(input_pix_fmt) == input_pix_fmt

(* lines 559-582 *)
correctPixFmt(input_pix_fmt) ==
    CASE input_pix_fmt = "YUVJ420P" -> "YUV420P"
      [] input_pix_fmt = "YUVJ422P" -> "YUV422P"
      [] input_pix_fmt = "YUVJ444P" -> "YUV444P"
      [] input_pix_fmt = "YUVJ440P" -> "YUV440P"
      [] OTHER -> input_pix_fmt

(* every failed read taken for an error *)
ReadStatusNoWouldBlock(ret) == IF ret = "EOF" THEN "EOFError" ELSE "ReadError"

(* lines 335-344, 409-418: outcome of a read that delivers no packet *)
ReadStatus(ret) ==
    IF ret = "EAGAIN" THEN "Success"
    ELSE IF ret = "EOF" THEN "EOFError" ELSE "ReadError"

(* the stream check left out *)
IsSelectedAny(pkt, idx) == TRUE

(* lines 347, 421 *)
IsSelected(pkt, idx) == pkt.stream = idx

(* lines 355-361 (video) *)
VideoSubmitFailStatus(accelOn, failed, ret) ==
    IF accelOn /\ failed THEN "RestartRequired"
    ELSE IF ret = "EOF" THEN "Success" ELSE "DecodeError"

(* lines 428-429 (audio) *)
AudioSubmitFailStatus(ret) == IF ret = "EOF" THEN "Success" ELSE "DecodeError"

(* every result but success taken for a failure *)
RetrieveFailedAny(ret) == ret # "OK"

(* lines 363, 432, 480 *)
RetrieveFailed(ret) == ret # "OK" /\ ret # "EAGAIN" /\ ret # "EOF"

(* lines 364-368 (video) *)
VideoRetrieveFailStatus(accelOn, failed) ==
    IF accelOn /\ failed THEN "RestartRequired" ELSE "DecodeError"

(* the late check left out, as flush does *)
LateAccelStatusNoCheck(accelOn, failed) == "FrameFinished"

(* lines 378-383: a frame was retrieved *)
LateAccelStatus(accelOn, failed) ==
    IF accelOn /\ failed THEN "RestartRequired" ELSE "FrameFinished"

(* lines 373 (video: always) and 437-438 (audio: only with a frame):       *)
(* av_packet_unref after a retrieval that did not fail                      *)
UnrefAfterRetrieve(isVideo, frameFinished) == isVideo \/ frameFinished

(* lines 386-387, 440-441: getTimeBase() * (pts - start_time) in            *)
(* microseconds, truncated; the time base is 1/den, start_time is 0         *)
Elapsed(pts, den) == ((1 * (pts - 0)) * Microseconds) \div den

(* pacing whether the rate is emulated or not *)
PacedAlways(emulate, pts) == pts # AV_NOPTS_VALUE

(* lines 385, 439 *)
Paced(emulate, pts) == emulate /\ pts # AV_NOPTS_VALUE

(* no sleep *)
WakeTimeNoSleep(target, t) == t

(* lines 388-391, 442-445: the instant sleep_for returns *)
WakeTime(target, t) == IF target > t THEN target ELSE t

(* getTimeBase(), lines 516-521 *)
TimeBaseDen == IF streamIndex_ >= 0 /\ streamIndex_ < Len(streams)
               THEN streams[streamIndex_ + 1].den ELSE 1

(* lines 352-396 (video) and 426-450 (audio): what decode() does with a     *)
(* packet it has read.  sf, rf: failure injected into submission and        *)
(* retrieval; hf: what accel_->hasFailed() answers during this call; fmt:   *)
(* the format the codec gives the frame; t: what av_gettime() returns       *)
decodePacket(isVideo, pkt, sf, rf, hf, fmt, t) ==
    LET accelOn == isVideo /\ accel_.attached
        base == [status |-> "Success", ctx |-> decoderCtx_, released |-> TRUE,
                 send |-> "none", recv |-> "none", pts |-> AV_NOPTS_VALUE,
                 format |-> "none", extracted |-> FALSE, t |-> t,
                 target |-> -1]
        snd == SendPacket(decoderCtx_, pkt, sf)
        rcv == ReceiveFrame(snd.ctx, rf)
        target == startTime_ + Elapsed(rcv.pts, TimeBaseDen)
        paced == Paced(emulateRate_, rcv.pts)
        got == [base EXCEPT
                  !.ctx = rcv.ctx, !.send = snd.ret, !.recv = rcv.ret,
                  !.released = UnrefAfterRetrieve(isVideo, rcv.ret = "OK")]
    IN  IF ~IsSelected(pkt, streamIndex_) THEN base
        ELSE IF snd.ret # "OK" THEN
            [base EXCEPT
                !.status = IF isVideo
                           THEN VideoSubmitFailStatus(accelOn, hf, snd.ret)
                           ELSE AudioSubmitFailStatus(snd.ret),
                !.released = FALSE, !.send = snd.ret]
        ELSE IF RetrieveFailed(rcv.ret) THEN
            [base EXCEPT
                !.status = IF isVideo
                           THEN VideoRetrieveFailStatus(accelOn, hf)
                           ELSE "DecodeError",
                !.ctx = rcv.ctx, !.released = FALSE,
                !.send = snd.ret, !.recv = rcv.ret]
        ELSE IF rcv.ret # "OK" THEN got
        ELSE IF accelOn /\ LateAccelStatus(accelOn, hf) # "FrameFinished"
        THEN [got EXCEPT !.status = LateAccelStatus(accelOn, hf),
                         !.pts = rcv.pts, !.format = correctPixFmt(fmt)]
        ELSE [got EXCEPT
                !.status = "FrameFinished", !.pts = rcv.pts,
                !.format = IF isVideo THEN correctPixFmt(fmt) ELSE "none",
                !.extracted = accelOn,
                !.target = IF paced THEN target ELSE -1,
                !.t = IF paced THEN WakeTime(target, t) ELSE t]

(* the caller's obligation (spec section 3): decode and flush are called    *)
(* on an open input and an open decoding context of the matching kind       *)
DecodeReady(isVideo) ==
    /\ inputOpen
    /\ decoderCtx_.state = "open"
    /\ decoderCtx_.kind = IF isVideo THEN "video" ELSE "audio"

OpName(isVideo) == IF isVideo THEN "decodeVideo" ELSE "decodeAudio"

(* the read delivers no packet: lines 334-344, 408-418 *)
decodeNoPacket(isVideo, rd) ==
    /\ DecodeReady(isVideo)
    /\ eof' = (eof \/ rd = "EOF")
    /\ run' = IF rd # "ERR" THEN run ELSE NoRun
    /\ last' = [LastNone EXCEPT !.op = OpName(isVideo), !.status = ReadStatus(rd),
                                !.read = rd,
                                !.accel = isVideo /\ accel_.attached]
    /\ UNCHANGED << inputOpen, streams, nRead, held, decoderCtx_,
                    allocCount, heap, accelDenied, streamIndex_, accel_, enableAccel_, emulateRate_,
                    decodingAccelerated, startTime_, now, resampler_,
                    nResamplers, ffPrev >>

(* the read delivers a packet *)
decodeRead(isVideo, pkt, sf, rf, hf, fmt) ==
    LET o == decodePacket(isVideo, pkt, sf, rf, hf, fmt, now)
        accelOn == isVideo /\ accel_.attached
        nofault == sf = "none" /\ rf = "none" /\ ~(accelOn /\ hf)
    IN  /\ DecodeReady(isVideo)
        /\ ~eof /\ nRead < MaxPkts
        /\ o.t <= MaxNow
        /\ now' = o.t
        /\ nRead' = nRead + 1
        /\ held' = IF o.released THEN held ELSE held + 1
        /\ decoderCtx_' = o.ctx
        /\ run' = IF run.clean /\ nofault
                  THEN [run EXCEPT
                          !.frames = IF pkt.stream = streamIndex_ THEN @ + 1 ELSE @,
                          !.finished = IF o.status = "FrameFinished" THEN @ + 1
                                                                     ELSE @]
                  ELSE NoRun
        /\ ffPrev' = IF o.status = "FrameFinished" /\ o.target # -1
                     THEN [pts |-> o.pts, t |-> o.t, target |-> o.target,
                           n |-> ffPrev.n + 1]
                     ELSE ffPrev
        /\ last' = [LastNone EXCEPT
                      !.op = OpName(isVideo), !.status = o.status, !.read = "OK",
                      !.send = o.send, !.recv = o.recv,
                      !.selected = (pkt.stream = streamIndex_),
                      !.accel = accelOn,
                      !.failed = accelOn /\ hf,
                      !.format = o.format, !.extracted = o.extracted]
        /\ UNCHANGED << inputOpen, streams, eof, allocCount, heap, accelDenied, streamIndex_,
                        accel_, enableAccel_, emulateRate_, decodingAccelerated,
                        startTime_, resampler_, nResamplers >>

(* every way one decode() call can go: what the read returns, and for a     *)
(* packet of the selected stream what the codec and the accelerator do      *)
decodeWith(isVideo, stamps, sendFaults, recvFaults) ==
    \/ \E rd \in {"EAGAIN", "EOF", "ERR"} : decodeNoPacket(isVideo, rd)
    \/ \E st \in 0..(Len(streams) - 1) :
          IF st # streamIndex_
          THEN decodeRead(isVideo,
                          [stream |-> st, pts |-> AV_NOPTS_VALUE, data |-> TRUE],
                          "none", "none", FALSE, "NV12")
          ELSE \E pts \in stamps, sf \in sendFaults, rf \in recvFaults,
                  hf \in (IF isVideo /\ accel_.attached THEN BOOLEAN ELSE {FALSE}),
                  fmt \in (IF isVideo THEN CodecFmts ELSE {"NV12"}) :
                    /\ sf # "none" => rf = "none"
                    /\ decodeRead(isVideo,
                                  [stream |-> st, pts |-> pts, data |-> TRUE],
                                  sf, rf, hf, fmt)

decode(isVideo, sendFaults, recvFaults) ==
    decodeWith(isVideo, Stamps, sendFaults, recvFaults)

DecodeVideo == decode(TRUE, SendFaults, RecvFaults)

DecodeAudio == decode(FALSE, SendFaults, RecvFaults)

(* the same calls on a codec that never fails *)
DecodeVideoNoFault == decode(TRUE, {"none"}, {"none"})

DecodeAudioNoFault == decode(FALSE, {"none"}, {"none"})

(* the same calls with every result the two codec calls can give, injected  *)
(* whatever the codec holds                                                 *)
DecodeVideoAnyResult == decode(TRUE, SendResults, RecvResults)

DecodeAudioAnyResult == decode(FALSE, SendResults, RecvResults)

(* the same calls on a codec that never fails, whose frames carry a         *)
(* timestamp or none whether the rate is emulated or not                    *)
DecodeVideoStamped == decodeWith(TRUE, {AV_NOPTS_VALUE, nRead}, {"none"}, {"none"})

DecodeAudioStamped == decodeWith(FALSE, {AV_NOPTS_VALUE, nRead}, {"none"}, {"none"})

(* ------------------------------ flush ----------------------------------- *)
(* the accelerator check of decode() *)
FlushSubmitFailStatusChecked(accelOn, failed, ret) ==
    IF accelOn /\ failed THEN "RestartRequired"
    ELSE IF ret = "EOF" THEN "Success" ELSE "DecodeError"

(* lines 476-477 *)
FlushSubmitFailStatus(accelOn, failed, ret) ==
    IF ret = "EOF" THEN "Success" ELSE "DecodeError"

(* lines 480-481 *)
FlushRetrieveFailStatus(accelOn, failed) == "DecodeError"

(* lines 485-493: a frame was retrieved *)
FlushLateStatus(accelOn, failed) == "FrameFinished"

(* extraction whatever the accelerator reports *)
FlushExtractsAlways(accelOn, failed) == accelOn

(* lines 490-491 *)
FlushExtracts(accelOn, failed) == accelOn /\ ~failed

(* lines 467-497 *)
flush(sf, rf, hf, fmt) ==
    LET accelOn == accel_.attached
        snd == SendPacket(decoderCtx_, FlushPacket, sf)
        rcv == ReceiveFrame(snd.ctx, rf)
        status == IF snd.ret # "OK"
                  THEN FlushSubmitFailStatus(accelOn, hf, snd.ret)
                  ELSE IF RetrieveFailed(rcv.ret)
                  THEN FlushRetrieveFailStatus(accelOn, hf)
                  ELSE IF rcv.ret = "OK" THEN FlushLateStatus(accelOn, hf)
                  ELSE "Success"
        got == snd.ret = "OK" /\ rcv.ret = "OK"
    IN  /\ DecodeReady(TRUE)
        /\ decoderCtx_' = IF snd.ret = "OK" THEN rcv.ctx ELSE decoderCtx_
        /\ run' = IF run.clean /\ eof /\ sf = "none" /\ rf = "none"
                  THEN [run EXCEPT !.drained = IF status = "FrameFinished"
                                               THEN @ + 1 ELSE @]
                  ELSE NoRun
        /\ last' = [LastNone EXCEPT
                      !.op = "flush", !.status = status, !.send = snd.ret,
                      !.recv = IF snd.ret = "OK" THEN rcv.ret ELSE "none",
                      !.accel = accelOn, !.failed = accelOn /\ hf,
                      !.format = IF got THEN fmt ELSE "none",
                      !.extracted = got /\ FlushExtracts(accelOn, hf)]
        /\ UNCHANGED << inputOpen, streams, eof, nRead, held,
                        allocCount, heap, accelDenied, streamIndex_, accel_, enableAccel_,
                        emulateRate_, decodingAccelerated, startTime_, now,
                        resampler_, nResamplers, ffPrev >>

Flush ==
    \E sf \in SendFaults, rf \in RecvFaults,
       hf \in (IF accel_.attached THEN BOOLEAN ELSE {FALSE}),
       fmt \in CodecFmts :
        /\ sf # "none" => rf = "none"
        /\ flush(sf, rf, hf, fmt)

(* ------------------------- writeToRingBuffer ---------------------------- *)
(* line 545 *)
NeedsResampling(frameRate, out) == frameRate # out.sample_rate

(* a resampler for every call *)
MustCreateResamplerAlways(have) == TRUE

(* line 546 *)
MustCreateResampler(have) == ~have

(* lines 531-534: decBuff_ takes the frame's rate and the context's channels *)
DecBuffFormat(frameRate, ctx) ==
    [sample_rate |-> frameRate, channels |-> ctx.channels]

(* the output buffer left at the rate the context was set up with *)
ResamplingBuffFormatStale(out, ctx) ==
    [sample_rate |-> ctx.sample_rate, channels |-> ctx.channels]

(* line 550 *)
ResamplingBuffFormat(out, ctx) ==
    [sample_rate |-> out.sample_rate, channels |-> ctx.channels]

(* lines 526-557 *)
writeToRingBuffer(frameRate, out) ==
    LET resample == NeedsResampling(frameRate, out)
        create == resample /\ MustCreateResampler(resampler_)
    IN  /\ decoderCtx_.state = "open"
        /\ decoderCtx_.kind = "audio"
        /\ resampler_' = (resampler_ \/ create)
        /\ nResamplers' = IF create THEN nResamplers + 1 ELSE nResamplers
        /\ last' = [LastNone EXCEPT
                      !.op = "writeToRingBuffer",
                      !.put = IF resample
                              THEN ResamplingBuffFormat(out, decoderCtx_)
                              ELSE DecBuffFormat(frameRate, decoderCtx_),
                      !.frameRate = frameRate, !.out = out, !.built = create]
        /\ UNCHANGED << inputOpen, streams, eof, nRead, held,
                        decoderCtx_, allocCount, heap, accelDenied, streamIndex_, accel_,
                        enableAccel_, emulateRate_, decodingAccelerated,
                        startTime_, now, ffPrev, run >>

WriteToRingBuffer ==
    \E frameRate \in Rates, sr \in Rates, ch \in ChannelCounts :
        writeToRingBuffer(frameRate, [sample_rate |-> sr, nb_channels |-> ch])

(* --------------------------- specifications ----------------------------- *)
(* every operation on one instance *)
Next ==
    \/ OpenInput
    \/ setupFromAudioData
    \/ setupFromVideoData
    \/ EnableAccel
    \/ SetDecodingAccelerated
    \/ Tick
    \/ DecodeVideo
    \/ DecodeAudio
    \/ Flush
    \/ WriteToRingBuffer

Spec == Init /\ [][Next]_vars

(* The specifications below are parts of Spec: each keeps the operations    *)
(* of one path of the decoder and fixes the configuration the path does     *)
(* not depend on.                                                           *)

(* the video path without rate emulation; acceleration is allowed          *)
(* process-wide                                                             *)
NextVideo ==
    \/ OpenInput
    \/ setupFromVideoData
    \/ EnableAccel
    \/ DecodeVideo
    \/ Flush

SpecVideo == InitCfg(BOOLEAN, {FALSE}, {TRUE}) /\ [][NextVideo]_vars

(* the audio path without rate emulation *)
NextAudio ==
    \/ OpenInput
    \/ setupFromAudioData
    \/ DecodeAudio
    \/ WriteToRingBuffer

SpecAudio == InitCfg(BOOLEAN, {FALSE}, BOOLEAN) /\ [][NextAudio]_vars

(* both setups on one instance and every configuration call, no decoding *)
NextSetup ==
    \/ OpenInput
    \/ setupFromAudioData
    \/ setupFromVideoData
    \/ EnableAccel
    \/ SetDecodingAccelerated
    \/ Tick

SpecSetup == InitCfg(BOOLEAN, BOOLEAN, BOOLEAN) /\ [][NextSetup]_vars

(* audio and video decoding without rate emulation *)
NextDecode ==
    \/ OpenInput
    \/ setupFromAudioData
    \/ setupFromVideoData
    \/ EnableAccel
    \/ DecodeVideo
    \/ DecodeAudio

SpecDecode == InitCfg(BOOLEAN, {FALSE}, {TRUE}) /\ [][NextDecode]_vars

(* rate emulation: the clock runs; the codec does not fail in decode() *)
NextRate ==
    \/ OpenInput
    \/ setupFromAudioData
    \/ setupFromVideoData
    \/ Tick
    \/ DecodeVideoNoFault
    \/ DecodeAudioNoFault
    \/ Flush

SpecRate == InitCfg({FALSE}, {TRUE}, {FALSE}) /\ [][NextRate]_vars

(* acceleration: the process-wide flag changes between the calls *)
NextAccel ==
    \/ OpenInput
    \/ setupFromVideoData
    \/ EnableAccel
    \/ SetDecodingAccelerated
    \/ DecodeVideo

SpecAccel == InitCfg(BOOLEAN, {FALSE}, BOOLEAN) /\ [][NextAccel]_vars

(* decoding with every result of the codec calls, without rate emulation *)
NextStatus ==
    \/ OpenInput
    \/ setupFromAudioData
    \/ setupFromVideoData
    \/ EnableAccel
    \/ DecodeVideoAnyResult
    \/ DecodeAudioAnyResult

SpecStatus == InitCfg(BOOLEAN, {FALSE}, {TRUE}) /\ [][NextStatus]_vars

(* pacing: the rate is emulated or not, frames carry timestamps either way *)
NextPace ==
    \/ OpenInput
    \/ setupFromAudioData
    \/ setupFromVideoData
    \/ Tick
    \/ DecodeVideoStamped
    \/ DecodeAudioStamped

SpecPace == InitCfg({FALSE}, BOOLEAN, {FALSE}) /\ [][NextPace]_vars

(* ------------------------------ claims ---------------------------------- *)
SubmitFailedIn(l) == l.send \in {"EAGAIN", "EOF", "ERR"}
RetrieveFailedIn(l) == l.send = "OK" /\ l.recv = "ERR"
FrameRetrievedIn(l) == l.send = "OK" /\ l.recv = "OK"

(* C1: in the video decode, with an accelerator attached that reports       *)
(* failure, a failed submission, a failed retrieval (other than would-block *)
(* or end of stream) and a retrieved frame each give RestartRequired.       *)
C1_AccelFailureRestarts ==
    ( /\ last.op = "decodeVideo"
      /\ last.accel /\ last.failed
      /\ SubmitFailedIn(last) \/ RetrieveFailedIn(last) \/ FrameRetrievedIn(last) )
    => last.status = "RestartRequired"

C1_Witness ==
    /\ last.op = "decodeVideo"
    /\ last.accel /\ last.failed
    /\ FrameRetrievedIn(last)
    /\ last.status = "RestartRequired"

(* C2 as stated: when a fault-free run of decode() calls from the start of  *)
(* the source reaches EOFError, every frame of the selected stream has been *)
(* returned as FrameFinished.                                               *)
C2_AllFramesBeforeEOF ==
    (run.clean /\ run.drained = 0 /\ last.op \in {"decodeVideo", "decodeAudio"}
               /\ last.status = "EOFError")
    => run.finished = run.frames

(* C2 amended: in a fault-free run decode() returns only Success,           *)
(* FrameFinished and EOFError, and at EOFError it has returned every frame  *)
(* of the selected stream except those the codec still buffers; a codec     *)
(* that buffers nothing has returned them all.                              *)
C2_AllButBufferedBeforeEOF ==
    (run.clean /\ run.drained = 0 /\ last.op \in {"decodeVideo", "decodeAudio"})
    => /\ last.status \in {"Success", "FrameFinished", "EOFError"}
       /\ last.status = "EOFError" =>
            /\ run.finished + Len(decoderCtx_.queue) = run.frames
            /\ Len(decoderCtx_.queue) <= decoderCtx_.delay
            /\ decoderCtx_.delay = 0 => run.finished = run.frames

C2_Witness ==
    /\ run.clean
    /\ last.op \in {"decodeVideo", "decodeAudio"}
    /\ last.status = "EOFError"
    /\ run.frames = 2
    /\ run.finished = 1

(* C3: no packet that decode() has read is still referenced when the call   *)
(* has returned.                                                            *)
C3_NoPacketHeld == held = 0

(* C4: after a setup call that returned -1 the instance has no open or      *)
(* allocated decoding context, no selected stream, no accelerator and no    *)
(* rate-emulation origin.                                                   *)
C4_FailedSetupLeavesNothing ==
    (last.op \in {"setupFromAudioData", "setupFromVideoData"} /\ last.ret = -1)
    => /\ decoderCtx_.state \in {"null", "closed"}
       /\ streamIndex_ = -1
       /\ ~accel_.attached
       /\ startTime_ = AV_NOPTS_VALUE

(* C5: at end of stream, with K frames buffered in the decoding context     *)
(* (those submitted by decode() and not returned by it), flush() has        *)
(* returned FrameFinished K times when it returns Success.                  *)
C5_FlushDrainsAll ==
    (run.clean /\ eof /\ last.op = "flush" /\ last.status = "Success")
    => run.drained = run.frames - run.finished

SetupOps == {"setupFromAudioData", "setupFromVideoData"}

(* C6 as stated: startTime_ is written once, by the first successful setup  *)
(* call, and never changes afterwards.                                      *)
C6_OriginWrittenOnce ==
    [][startTime_' # startTime_ =>
         /\ startTime_ = AV_NOPTS_VALUE
         /\ last'.op \in SetupOps /\ last'.ret = 0]_vars

(* C6 amended: startTime_ changes only in a setup call made with            *)
(* emulateRate_ set, and every such call that gets as far as allocating a   *)
(* decoding context sets it to the current time, whether it is the first    *)
(* or a later one and whether the codec then opens or not; it never         *)
(* decreases, and no other operation changes it.                            *)
C6_OriginSetBySetupOnly ==
    [][ /\ startTime_' # startTime_ =>
             /\ last'.op \in SetupOps
             /\ allocCount' = allocCount + 1
             /\ emulateRate_
             /\ startTime_' > startTime_
        /\ (allocCount' = allocCount + 1 /\ emulateRate_) => startTime_' = now
      ]_vars

(* a second setup has moved the origin *)
C6_Witness ==
    /\ last.op \in SetupOps
    /\ allocCount = 2
    /\ startTime_ = now
    /\ now > 0

(* C7 as stated: with rate emulation, a frame whose timestamp is D >= 0     *)
(* after that of the frame returned before it is returned at least D later  *)
(* than that frame was returned.                                            *)
C7_GapAtLeastDelta ==
    [][(ffPrev'.n = ffPrev.n + 1 /\ ffPrev.n >= 1 /\ ffPrev'.pts >= ffPrev.pts) =>
         now' - ffPrev.t >=
            Elapsed(ffPrev'.pts, TimeBaseDen) - Elapsed(ffPrev.pts, TimeBaseDen)
      ]_vars

(* C7 amended: with rate emulation, decode() returns FrameFinished for a    *)
(* frame with a valid timestamp no earlier than that frame's target         *)
(* instant, startTime_ plus its elapsed presentation time; so it returns    *)
(* at least D after the target instant of the earlier frame, not after the  *)
(* instant the earlier frame was actually returned.                         *)
C7_NotBeforeTarget ==
    [][ffPrev'.n = ffPrev.n + 1 =>
         /\ ffPrev'.t = now'
         /\ now' >= startTime_ + Elapsed(ffPrev'.pts, TimeBaseDen)
         /\ (ffPrev.n >= 1 /\ ffPrev'.pts >= ffPrev.pts) =>
              now' >= ffPrev.target + Elapsed(ffPrev'.pts, TimeBaseDen)
                                    - Elapsed(ffPrev.pts, TimeBaseDen)
      ]_vars

(* two paced frames were returned, the second one after a sleep *)
C7_Witness ==
    /\ ffPrev.n = 2
    /\ ffPrev.pts > 0
    /\ ffPrev.t = ffPrev.target
    /\ now = ffPrev.t
    /\ last.status = "FrameFinished"

(* C8 as stated: the buffer writeToRingBuffer hands to the ring buffer has  *)
(* the sample rate and the channel count of outFormat.                      *)
C8_PutMatchesOutFormat ==
    last.op = "writeToRingBuffer" =>
        /\ last.put.sample_rate = last.out.sample_rate
        /\ last.put.channels = last.out.nb_channels

(* C8 amended: the buffer has the sample rate of outFormat and the channel  *)
(* count of the decoding context, which is the one given to                 *)
(* setupFromAudioData.                                                      *)
C8_PutHasOutRateCtxChannels ==
    last.op = "writeToRingBuffer" =>
        /\ last.put.sample_rate = last.out.sample_rate
        /\ last.put.channels = decoderCtx_.channels
        /\ \E f \in Formats : f.nb_channels = decoderCtx_.channels

(* a resampled buffer whose channel count is not the one asked for *)
C8_Witness ==
    /\ last.op = "writeToRingBuffer"
    /\ last.frameRate # last.out.sample_rate
    /\ last.out.nb_channels # decoderCtx_.channels
    /\ last.put.sample_rate = last.out.sample_rate

(* C9: at most one Resampler is ever constructed; a call constructs one     *)
(* only if its frame rate differs from the target rate, and after any call  *)
(* with differing rates the resampler exists.                               *)
C9_ResamplerBuiltOnce ==
    /\ nResamplers <= 1
    /\ resampler_ <=> nResamplers = 1
    /\ last.op = "writeToRingBuffer" =>
         /\ last.built => last.frameRate # last.out.sample_rate
         /\ last.frameRate # last.out.sample_rate => resampler_

(* a call with differing rates that reused the resampler *)
C9_Witness ==
    /\ last.op = "writeToRingBuffer"
    /\ last.frameRate # last.out.sample_rate
    /\ ~last.built
    /\ nResamplers = 1

(* C10 as stated: in flush(), with an accelerator attached that reports     *)
(* failure, a failed submission or a failed retrieval (other than           *)
(* would-block or end of stream) gives RestartRequired.                     *)
C10_FlushRestartsOnAccelFailure ==
    ( /\ last.op = "flush"
      /\ last.accel /\ last.failed
      /\ SubmitFailedIn(last) \/ RetrieveFailedIn(last) )
    => last.status = "RestartRequired"

(* C10 amended: flush() never returns RestartRequired; whatever the         *)
(* accelerator reports, a failed submission gives Success for end of stream *)
(* and DecodeError otherwise, and a failed retrieval (other than            *)
(* would-block or end of stream) gives DecodeError.                         *)
C10_FlushIgnoresAccelFailure ==
    last.op = "flush" =>
        /\ last.status # "RestartRequired"
        /\ SubmitFailedIn(last) =>
             last.status = (IF last.send = "EOF" THEN "Success" ELSE "DecodeError")
        /\ RetrieveFailedIn(last) => last.status = "DecodeError"

C10_Witness ==
    /\ last.op = "flush"
    /\ last.accel /\ last.failed
    /\ last.send = "ERR"
    /\ last.status = "DecodeError"

(* C11: a decode() call (audio or video) that reads a packet of a stream    *)
(* other than the selected one releases the packet, returns Success,        *)
(* submits nothing to the decoding context and leaves the caller's frame,   *)
(* the accelerator and the decoder state as they were.                      *)
C11_OtherStreamDiscarded ==
    [][(nRead' = nRead + 1 /\ ~last'.selected) =>
         /\ last'.status = "Success"
         /\ held' = held
         /\ last'.send = "none" /\ last'.recv = "none"
         /\ last'.format = "none" /\ ~last'.extracted
         /\ UNCHANGED << decoderCtx_, accel_, streamIndex_, startTime_, now,
                         heap, allocCount, enableAccel_, inputOpen, eof >>
      ]_vars

(* a packet of another stream was dropped while the codec holds a frame *)
C11_Witness ==
    /\ last.op \in {"decodeVideo", "decodeAudio"}
    /\ last.read = "OK" /\ ~last.selected
    /\ last.status = "Success"
    /\ Len(decoderCtx_.queue) = 1
    /\ held = 0

(* C12: when the read of decode() (audio or video) delivers no packet, its  *)
(* result alone gives the status: would-block Success, end of stream        *)
(* EOFError, any other failure ReadError; nothing is submitted to or        *)
(* retrieved from the decoding context and the caller's frame is untouched. *)
C12_ReadResultDecides ==
    [][(last'.read \in {"EAGAIN", "EOF", "ERR"} /\ last'.op \in {"decodeVideo", "decodeAudio"}) =>
         /\ last'.status = (CASE last'.read = "EAGAIN" -> "Success"
                              [] last'.read = "EOF" -> "EOFError"
                              [] OTHER -> "ReadError")
         /\ last'.send = "none" /\ last'.recv = "none"
         /\ last'.format = "none" /\ ~last'.extracted
         /\ UNCHANGED << decoderCtx_, held, nRead, accel_ >>
      ]_vars

(* a read failed while the codec holds a frame *)
C12_Witness ==
    /\ last.op \in {"decodeVideo", "decodeAudio"}
    /\ last.read = "EAGAIN"
    /\ last.status = "Success"
    /\ Len(decoderCtx_.queue) = 1

(* C13: after any sequence of setup calls at most one decoding context is   *)
(* open, and every context allocated before the current one has been        *)
(* released.                                                                *)
C13_NoContextLeaked ==
    /\ Cardinality({i \in 1..Len(heap) : heap[i] = "open"}) <= 1
    /\ \A i \in 1..Len(heap) : i # decoderCtx_.id => heap[i] = "freed"

(* C14: after a setup call that returned 0 the selected stream is the       *)
(* lowest-indexed stream of the kind that call asked for.                   *)
C14_LowestIndexOfKind ==
    (last.op \in SetupOps /\ last.ret = 0) =>
        LET kind == IF last.op = "setupFromAudioData" THEN "audio" ELSE "video"
        IN  /\ streamIndex_ \in 0..(Len(streams) - 1)
            /\ streams[streamIndex_ + 1].kind = kind
            /\ \A j \in 0..(streamIndex_ - 1) : streams[j + 1].kind # kind

DecodeOps == {"decodeVideo", "decodeAudio"}

(* C15 as stated: once an openInput call has found the process-wide flag    *)
(* false, no later setupFromVideoData attaches an accelerator, no later     *)
(* decode call uses one and none returns RestartRequired.                   *)
C15_AccelOffAfterDeniedOpen ==
    [][accelDenied =>
         /\ allocCount' = allocCount + 1 => accel_'.ctx # allocCount'
         /\ nRead' = nRead + 1 =>
              (~last'.accel /\ last'.status # "RestartRequired")
      ]_vars

(* C15 amended: an openInput call that finds the process-wide flag false    *)
(* clears enableAccel_; only enableAccel(true) sets it again; while it is   *)
(* clear a setup creates no accelerator and leaves accel_ as it is; so      *)
(* with no accelerator attached and the flag clear, none is attached until  *)
(* enableAccel(true), and a decode call without an attached accelerator     *)
(* uses none and never returns RestartRequired.                             *)
C15_AccelOffUntilReenabled ==
    [][ /\ ( /\ last'.op = "openInput" /\ ~decodingAccelerated
             /\ decodingAccelerated' = decodingAccelerated /\ now' = now )
           => (~enableAccel_' /\ accelDenied')
        /\ (enableAccel_' /\ ~enableAccel_) => last'.op = "enableAccel"
        /\ (~enableAccel_ /\ allocCount' = allocCount + 1) => accel_' = accel_
        /\ (~enableAccel_ /\ ~accel_.attached /\ ~enableAccel_')
           => ~accel_'.attached
        /\ (nRead' = nRead + 1 /\ ~accel_.attached)
           => /\ ~last'.accel /\ ~last'.extracted
              /\ last'.status # "RestartRequired"
      ]_vars

(* a frame decoded without accelerator after a refused open and a setup *)
C15_Witness ==
    /\ accelDenied /\ ~decodingAccelerated
    /\ ~enableAccel_ /\ ~accel_.attached
    /\ decoderCtx_.state = "open" /\ decoderCtx_.opaque = 0
    /\ last.op = "decodeVideo" /\ last.status = "FrameFinished"
    /\ ~last.accel

JpegFmts == {"YUVJ420P", "YUVJ422P", "YUVJ444P", "YUVJ440P"}

(* C16: correctPixFmt maps the four full-range formats to their plain       *)
(* equivalents and every other format to itself, applying it twice gives    *)
(* what applying it once gives, and every frame the video decode returns    *)
(* with FrameFinished carries a format correctPixFmt leaves as it is.       *)
C16_PixFmtNormalised ==
    /\ correctPixFmt("YUVJ420P") = "YUV420P"
    /\ correctPixFmt("YUVJ422P") = "YUV422P"
    /\ correctPixFmt("YUVJ444P") = "YUV444P"
    /\ correctPixFmt("YUVJ440P") = "YUV440P"
    /\ \A x \in PixFmts \ JpegFmts : correctPixFmt(x) = x
    /\ \A x \in PixFmts :
          /\ correctPixFmt(x) \in PixFmts
          /\ correctPixFmt(correctPixFmt(x)) = correctPixFmt(x)
    /\ (last.op = "decodeVideo" /\ last.status = "FrameFinished") =>
          /\ last.format \in PixFmts \ JpegFmts
          /\ correctPixFmt(last.format) = last.format

(* the codec gave a full-range frame and the caller got the plain format *)
C16_Witness ==
    /\ last.op = "decodeVideo" /\ last.status = "FrameFinished"
    /\ last.format = "YUV420P"

(* C17: a decode() call lets time pass only when the rate is emulated, it   *)
(* returns FrameFinished and the frame has a timestamp whose target         *)
(* instant, startTime_ plus the elapsed presentation time, is later than    *)
(* the clock; it then returns at the target instant, never before it.       *)
(* Without rate emulation, and on every other outcome, the clock is where   *)
(* it was.                                                                  *)
C17_SleepsOnlyToTarget ==
    [][ /\ nRead' = nRead + 1 =>
             /\ now' >= now
             /\ now' # now =>
                  /\ emulateRate_
                  /\ last'.status = "FrameFinished"
                  /\ ffPrev'.n = ffPrev.n + 1
                  /\ ffPrev'.pts # AV_NOPTS_VALUE
                  /\ ffPrev'.target =
                        startTime_ + Elapsed(ffPrev'.pts, TimeBaseDen)
                  /\ ffPrev'.target > now
                  /\ now' = ffPrev'.target
             /\ ffPrev'.n = ffPrev.n + 1 => now' >= ffPrev'.target
             /\ (~emulateRate_ \/ last'.status # "FrameFinished") => now' = now
        /\ (last'.op \in DecodeOps /\ last'.read # "OK" /\ eof' # eof)
             => now' = now
      ]_vars

(* a frame returned at its target instant, which no clock step reaches *)
C17_Witness ==
    /\ emulateRate_
    /\ last.op \in DecodeOps /\ last.status = "FrameFinished"
    /\ ffPrev.n >= 1
    /\ now = ffPrev.target
    /\ now % Microseconds # 0

(* C18: the decoder holds an accelerator if and only if that accelerator   *)
(* is the opaque payload of the current decoding context and was made from  *)
(* that context.                                                            *)
C18_AccelMatchesContext ==
    accel_.attached <=>
        /\ decoderCtx_.state # "null"
        /\ decoderCtx_.opaque # 0
        /\ decoderCtx_.opaque = accel_.ctx
        /\ accel_.ctx = decoderCtx_.id

(* C19: for a packet of the selected stream and no accelerator failure,     *)
(* the status of decode() (audio or video) follows from the results of      *)
(* submission and retrieval alone: submission end of stream Success, any    *)
(* other submission failure DecodeError; after a submission, a frame        *)
(* FrameFinished, would-block or end of stream Success, any other           *)
(* retrieval failure DecodeError.  The decoding context stays open.         *)
C19_StatusFromCodecResults ==
    ( /\ last.op \in DecodeOps
      /\ last.read = "OK" /\ last.selected
      /\ ~(last.accel /\ last.failed) )
    => /\ last.status =
            (CASE last.send = "EOF" -> "Success"
               [] last.send \in {"EAGAIN", "ERR"} -> "DecodeError"
               [] last.send = "OK" /\ last.recv = "OK" -> "FrameFinished"
               [] last.send = "OK" /\ last.recv \in {"EAGAIN", "EOF"} -> "Success"
               [] OTHER -> "DecodeError")
       /\ decoderCtx_.state = "open"

(* the audio decode was refused a packet with end of stream *)
C19_Witness ==
    /\ last.op = "decodeAudio"
    /\ last.selected
    /\ last.send = "EOF"
    /\ last.status = "Success"
    /\ decoderCtx_.state = "open"

(* C20 as stated: when flush() retrieves a frame while the attached         *)
(* accelerator reports failure, it extracts the data into the caller's      *)
(* frame and returns FrameFinished.                                         *)
C20_FlushExtractsDespiteFailure ==
    (last.op = "flush" /\ last.accel /\ last.failed /\ FrameRetrievedIn(last))
    => (last.extracted /\ last.status = "FrameFinished")

(* C20 amended: when flush() retrieves a frame it returns FrameFinished,    *)
(* never RestartRequired, and extracts the data exactly when an             *)
(* accelerator is attached and does not report failure; with a failed       *)
(* accelerator the extraction is skipped.                                   *)
C20_FlushSkipsExtractionOnFailure ==
    (last.op = "flush" /\ FrameRetrievedIn(last))
    => /\ last.status = "FrameFinished"
       /\ last.extracted <=> (last.accel /\ ~last.failed)

C20_Witness ==
    /\ last.op = "flush"
    /\ last.accel /\ last.failed
    /\ FrameRetrievedIn(last)
    /\ last.status = "FrameFinished"
    /\ ~last.extracted

====
